---------------------------- MODULE Spec2Model ----------------------------
(***************************************************************************)
(* Model of the statistical aggregation layer of the EPH pipeline:         *)
(*   src/src/loader.py            load_ipc                                 *)
(*   src/src/ingresos.py          deflactar_ingreso, weighted means        *)
(*   src/src/graficos_ingresos.py calcular_univariado                      *)
(*   src/src/tasas.py             calcular_tasas, tasas_trimestrales       *)
(*   src/src/te_ramas_participacion.py  branch classifier, participation  *)
(*   src/src/boxplots.py          limpiar_boxplot                          *)
(*   src/src/cleaning.py          the steps of generar_eph_limpia          *)
(*                                                                         *)
(* A table (DataFrame) is a sequence of rows; a row is a record whose      *)
(* fields are the columns.  A numeric cell is either NaN or an exact       *)
(* rational <<n, d>> with d > 0 in lowest terms (floats are abstracted to  *)
(* exact rationals).  Key columns that the model never leaves empty are    *)
(* plain integers.                                                         *)
(***************************************************************************)
EXTENDS Integers, Sequences, FiniteSets, TLC

VARIABLES
    pc,              \* position of the run: which call has completed / raised
    ipc_file,        \* the price-index CSV: [col, rows]
    ipc_df,          \* the table returned by load_ipc
    df_eph,          \* the table handed to the operation under study
    ano_base,        \* base year passed to deflactar_ingreso
    trimestre_base,  \* base quarter passed to deflactar_ingreso
    df_defl,         \* the table returned by deflactar_ingreso
    df_ocup,         \* the employed-adults table handed to the income summaries
    aglos,           \* aglomerados_target of the last income summary call
    tabla_aglo,      \* result of ingreso_promedio_por_aglomerado
    tabla_aglo_trim, \* result of ingreso_promedio_trimestral_por_aglomerado
    tabla_uni,       \* result of calcular_univariado
    df_recortado,    \* the clean table (main.py: df) handed to the rate functions
    tasas,           \* result of calcular_tasas
    df_tasas,        \* result of tasas_trimestrales
    df_emp,          \* the table handed to the branch functions
    df_rama,         \* result of agregar_columna_rama
    df_part,         \* result of participacion_empleo_por_rama
    df_box,          \* the table handed to limpiar_boxplot
    q995,            \* limpiar_boxplot: the trimming threshold it computed
    df_box_out,      \* result of limpiar_boxplot
    eph_cruda,       \* the raw survey files, as load_raw_eph reads them
    df_cruda,        \* the DataFrame object the cleaning steps work on
    fs,              \* the files on disk: <<path, N>> is path (N = 1) or base_vN.ext
    destinos         \* the paths the last export step wrote to

\* what a run is given, and what each call returns
entradas == <<ipc_file, df_eph, ano_base, trimestre_base, df_ocup, df_recortado>>
salidasIngresos == <<aglos, tabla_aglo, tabla_aglo_trim, tabla_uni>>
salidasTasas == <<tasas, df_tasas>>
ramas == <<df_emp, df_rama, df_part>>
boxplot == <<df_box, q995, df_box_out>>
limpieza == <<eph_cruda, df_cruda>>
archivos == <<fs, destinos>>

vars == <<pc, entradas, ipc_df, df_defl, salidasIngresos, salidasTasas,
          ramas, boxplot, limpieza, archivos>>

\* the variables of the operations a specification does not call
RamasSinUso == df_emp = <<>> /\ df_rama = <<>> /\ df_part = <<>>
BoxplotSinUso == df_box = <<>> /\ q995 = <<>> /\ df_box_out = <<>>
LimpiezaSinUso == eph_cruda = <<>> /\ df_cruda = <<>>
ArchivosSinUso == fs = {} /\ destinos = {}

----------------------------------------------------------------------------
(* Bounds of the model *)

MaxRows == 2
MaxIpc == 2
MaxVersion == 3

----------------------------------------------------------------------------
(* Numeric cells: NaN or exact rationals *)

NaN == <<>>

IsNaN(v) == v = NaN

Abs(n) == IF n < 0 THEN -n ELSE n

RECURSIVE GCD(_, _)
GCD(a, b) == IF b = 0 THEN a ELSE GCD(b, a % b)

\* the rational n/d (d # 0) in lowest terms with a positive denominator
Frac(n, d) ==
    LET s == IF d < 0 THEN -1 ELSE 1
        g == GCD(Abs(n), Abs(d))
    IN  <<(s * n) \div g, (s * d) \div g>>

Num(n) == <<n, 1>>

RAdd(a, b) == Frac(a[1] * b[2] + b[1] * a[2], a[2] * b[2])
RSub(a, b) == Frac(a[1] * b[2] - b[1] * a[2], a[2] * b[2])
RMul(a, b) == Frac(a[1] * b[1], a[2] * b[2])
RDiv(a, b) == Frac(a[1] * b[2], a[2] * b[1])
RLe(a, b) == a[1] * b[2] <= b[1] * a[2]
RLt(a, b) == a[1] * b[2] < b[1] * a[2]

\* float arithmetic with NaN propagation
FMul(a, b) == IF IsNaN(a) \/ IsNaN(b) THEN NaN ELSE RMul(a, b)
FDiv(a, b) == IF IsNaN(a) \/ IsNaN(b) THEN NaN ELSE RDiv(a, b)

\* all sequences over S of length 0..n
SeqsUpTo(S, n) == UNION {[1..k -> S] : k \in 0..n}

RECURSIVE Concat(_)
Concat(ss) == IF ss = <<>> THEN <<>> ELSE Head(ss) \o Concat(Tail(ss))

----------------------------------------------------------------------------
(* src/src/loader.py: load_ipc *)

\* the column-name check and the IPC_INDEX -> IPC rename
load_ipc_ok(file) == file.col \in {"IPC_INDEX", "IPC"}

load_ipc_result(file) == file.rows

load_ipc ==
    /\ pc = "start"
    /\ IF load_ipc_ok(ipc_file)
         THEN /\ ipc_df' = load_ipc_result(ipc_file)
              /\ pc' = "ipc_loaded"
         ELSE /\ pc' = "KeyError"
              /\ UNCHANGED ipc_df
    /\ UNCHANGED <<archivos, ramas, boxplot, limpieza, entradas, df_defl, salidasIngresos, salidasTasas>>

----------------------------------------------------------------------------
(* src/src/ingresos.py: deflactar_ingreso *)

\* mutant: how="inner", a left row with no match is dropped
MergeRow_inner(r, ipc) ==
    LET m == SelectSeq(ipc, LAMBDA e : e.ANO4 = r.ANO4 /\ e.TRIMESTRE = r.TRIMESTRE)
    IN  [i \in 1..Len(m) |-> [IPC |-> m[i].IPC] @@ r]

\* df.merge(ipc_df, how="left", on=["ANO4", "TRIMESTRE"]) for one left row:
\* one output row per matching right row, in right order; a left row with
\* no match is kept once with IPC = NaN; every column of the left row is kept
MergeRow(r, ipc) ==
    LET m == SelectSeq(ipc, LAMBDA e : e.ANO4 = r.ANO4 /\ e.TRIMESTRE = r.TRIMESTRE)
    IN  IF m = <<>>
          THEN <<[IPC |-> NaN] @@ r>>
          ELSE [i \in 1..Len(m) |-> [IPC |-> m[i].IPC] @@ r]

MergeLeft(df, ipc) == Concat([i \in 1..Len(df) |-> MergeRow(df[i], ipc)])

\* mutant: falls back to the whole index when the base period is not in it
IpcBaseSel_fallback(ipc, ano, trim) ==
    LET sel == SelectSeq(ipc, LAMBDA e : e.ANO4 = ano /\ e.TRIMESTRE = trim)
    IN  IF sel = <<>> THEN ipc ELSE sel

\* mutant: the period mask is forgotten, .iloc[0] takes the first index row
IpcBaseSel_nomask(ipc, ano, trim) == ipc

\* ipc_df[(ANO4 == ano_base) & (TRIMESTRE == trimestre_base)]["IPC"]
IpcBaseSel(ipc, ano, trim) ==
    SelectSeq(ipc, LAMBDA e : e.ANO4 = ano /\ e.TRIMESTRE = trim)

\* mutant: the ratio is inverted
IngresoReal_inv(p47t, ipc_base, ipc) == FMul(p47t, FDiv(ipc, ipc_base))

\* df["INGRESO_REAL"] = df["P47T"] * (ipc_base / df["IPC"])
IngresoReal(p47t, ipc_base, ipc) == FMul(p47t, FDiv(ipc_base, ipc))

AddIngresoReal(df, ipc_base) ==
    [i \in 1..Len(df) |->
        [INGRESO_REAL |-> IngresoReal(df[i].P47T, ipc_base, df[i].IPC)] @@ df[i]]

deflactar_ingreso ==
    /\ pc = "ipc_loaded"
    /\ LET sel == IpcBaseSel(ipc_df, ano_base, trimestre_base)
       IN  IF sel = <<>>
             THEN \* .iloc[0] on an empty selection raises IndexError
                  /\ pc' = "IndexError"
                  /\ UNCHANGED df_defl
             ELSE /\ df_defl' = AddIngresoReal(MergeLeft(df_eph, ipc_df), sel[1].IPC)
                  /\ pc' = "deflated"
    /\ UNCHANGED <<archivos, ramas, boxplot, limpieza, entradas, ipc_df, salidasIngresos, salidasTasas>>

----------------------------------------------------------------------------
(* Inputs of the deflation runs *)

Periodos == {<<2024, 1>>, <<2024, 2>>, <<2025, 2>>}
PeriodosIpc == {<<2024, 1>>, <<2025, 2>>}
Nominales == {NaN, Num(100), Num(300)}
Indices == {Num(100), Num(200)}
IpcCols == {"IPC_INDEX", "IPC", "INDICE"}

EphRows == {[ANO4 |-> p[1], TRIMESTRE |-> p[2], P47T |-> x] :
               p \in Periodos, x \in Nominales}
IpcRows == {[ANO4 |-> p[1], TRIMESTRE |-> p[2], IPC |-> v] :
               p \in PeriodosIpc, v \in Indices}

InitDeflate ==
    /\ pc = "start"
    /\ ipc_file \in {[col |-> c, rows |-> rs] :
                        c \in IpcCols, rs \in SeqsUpTo(IpcRows, MaxIpc)}
    /\ ipc_df = <<>>
    /\ df_eph \in SeqsUpTo(EphRows, MaxRows)
    /\ \E p \in PeriodosIpc : ano_base = p[1] /\ trimestre_base = p[2]
    /\ df_defl = <<>>
    /\ df_ocup = <<>> /\ df_recortado = <<>>
    /\ aglos = <<>> /\ tabla_aglo = <<>> /\ tabla_aglo_trim = <<>> /\ tabla_uni = <<>>
    /\ tasas = <<>> /\ df_tasas = <<>>
    /\ RamasSinUso /\ BoxplotSinUso /\ LimpiezaSinUso /\ ArchivosSinUso

NextDeflate == load_ipc \/ deflactar_ingreso

SpecDeflate == InitDeflate /\ [][NextDeflate]_vars

----------------------------------------------------------------------------
(* pandas group-by and column helpers *)

RECURSIVE LexLt(_, _)
LexLt(a, b) ==
    IF a = <<>> THEN FALSE
    ELSE IF Head(a) # Head(b) THEN Head(a) < Head(b)
    ELSE LexLt(Tail(a), Tail(b))

RECURSIVE SortKeys(_)
SortKeys(S) ==
    IF S = {} THEN <<>>
    ELSE LET m == CHOOSE k \in S : \A o \in S : o = k \/ LexLt(k, o)
         IN  <<m>> \o SortKeys(S \ {m})

\* the values of the key columns cols in row r
KeyOf(r, cols) == [c \in 1..Len(cols) |-> r[cols[c]]]

\* the keys of df.groupby(cols), in sorted order, and the rows of one group
GroupKeys(t, cols) == SortKeys({KeyOf(t[i], cols) : i \in 1..Len(t)})
Group(t, cols, k) == SelectSeq(t, LAMBDA r : KeyOf(r, cols) = k)

Column(t, c) == [i \in 1..Len(t) |-> t[i][c]]

\* v[m] for a boolean mask m
RECURSIVE BoolIndex(_, _)
BoolIndex(v, m) ==
    IF v = <<>> THEN <<>>
    ELSE (IF Head(m) THEN <<Head(v)>> ELSE <<>>) \o BoolIndex(Tail(v), Tail(m))

RECURSIVE NpSum(_)
NpSum(v) == IF v = <<>> THEN Num(0) ELSE RAdd(Head(v), NpSum(Tail(v)))

\* w > 0 on floats: False for NaN
Positivo(w) == ~IsNaN(w) /\ RLt(Num(0), w)

\* df[df["AGLOMERADO"].isin(aglomerados_target)] when a target is given;
\* the target is <<>> for None and <<S>> for the list S
FiltrarAglos(t, target) ==
    IF target = <<>> THEN t
    ELSE SelectSeq(t, LAMBDA r : r.AGLOMERADO \in target[1])

----------------------------------------------------------------------------
(* src/src/ingresos.py: weighted means by aglomerado *)

\* mutant: divides by the number of eligible rows instead of their weight
wmean_unweighted(x, w) ==
    LET m == [i \in 1..Len(x) |-> ~IsNaN(x[i]) /\ Positivo(w[i])]
        xm == BoolIndex(x, m)
        wm == BoolIndex(w, m)
    IN  IF \E i \in 1..Len(m) : m[i]
          THEN RDiv(NpSum([i \in 1..Len(xm) |-> RMul(xm[i], wm[i])]), Num(Len(xm)))
          ELSE NaN

\* def wmean(x, w)
wmean(x, w) ==
    LET m == [i \in 1..Len(x) |-> ~IsNaN(x[i]) /\ Positivo(w[i])]
        xm == BoolIndex(x, m)
        wm == BoolIndex(w, m)
    IN  IF \E i \in 1..Len(m) : m[i]
          THEN RDiv(NpSum([i \in 1..Len(xm) |-> RMul(xm[i], wm[i])]), NpSum(wm))
          ELSE NaN

KeyAglo == <<"AGLOMERADO">>
KeyAgloTrim == <<"AGLOMERADO", "ANO4", "TRIMESTRE">>

IngresoPromedioPorAglomerado(t, target) ==
    LET f == FiltrarAglos(t, target)
        ks == GroupKeys(f, KeyAglo)
    IN  [j \in 1..Len(ks) |->
            LET g == Group(f, KeyAglo, ks[j])
            IN  [AGLOMERADO |-> ks[j][1],
                 INGRESO_REAL_PROM |->
                     wmean(Column(g, "INGRESO_REAL"), Column(g, "PONDERA"))]]

IngresoPromedioTrimestralPorAglomerado(t, target) ==
    LET f == FiltrarAglos(t, target)
        ks == GroupKeys(f, KeyAgloTrim)
    IN  [j \in 1..Len(ks) |->
            LET g == Group(f, KeyAgloTrim, ks[j])
            IN  [AGLOMERADO |-> ks[j][1], ANO4 |-> ks[j][2], TRIMESTRE |-> ks[j][3],
                 INGRESO_REAL_PROM |->
                     wmean(Column(g, "INGRESO_REAL"), Column(g, "PONDERA"))]]

AglosTargets == {<<>>, <<{31}>>}

ingreso_promedio_por_aglomerado ==
    /\ pc = "start"
    /\ \E a \in AglosTargets :
          /\ aglos' = a
          /\ tabla_aglo' = IngresoPromedioPorAglomerado(df_ocup, a)
    /\ pc' = "tabla_aglo"
    /\ UNCHANGED <<archivos, ramas, boxplot, limpieza, entradas, ipc_df, df_defl, tabla_aglo_trim, tabla_uni, salidasTasas>>

ingreso_promedio_trimestral_por_aglomerado ==
    /\ pc = "start"
    /\ \E a \in AglosTargets :
          /\ aglos' = a
          /\ tabla_aglo_trim' = IngresoPromedioTrimestralPorAglomerado(df_ocup, a)
    /\ pc' = "tabla_aglo_trim"
    /\ UNCHANGED <<archivos, ramas, boxplot, limpieza, entradas, ipc_df, df_defl, tabla_aglo, tabla_uni, salidasTasas>>

----------------------------------------------------------------------------
(* src/src/graficos_ingresos.py: calcular_univariado *)

\* ANO4.astype(str) + "-T" + TRIMESTRE.astype(str)
Periodo(r) == ToString(r.ANO4) \o "-T" \o ToString(r.TRIMESTRE)

\* mutant: rounds up instead of truncating
AsInt_ceil(w) == (w[1] + w[2] - 1) \div w[2]

\* astype(int) of a positive float: truncation
AsInt(w) == w[1] \div w[2]

\* mutant: the values are not put in order before the quantile is read
Ordenar_id(v) == v

Ordenar(v) == SortSeq(v, RLt)

\* Series.median()
Median(v) ==
    LET a == Ordenar(v)
        n == Len(a)
    IN  IF n = 0 THEN NaN
        ELSE IF n % 2 = 1 THEN a[(n + 1) \div 2]
        ELSE RDiv(RAdd(a[n \div 2], a[n \div 2 + 1]), Num(2))

\* Series.quantile(q), q = <<num, den>>: linear interpolation between the
\* order statistics around position (n - 1) * q
Quantile(v, q) ==
    LET a == Ordenar(v)
        n == Len(a)
        pos == (n - 1) * q[1]
        lo == pos \div q[2]
        r == pos % q[2]
    IN  IF n = 0 THEN NaN
        ELSE IF r = 0 THEN a[lo + 1]
        ELSE RAdd(a[lo + 1], RMul(Frac(r, q[2]), RSub(a[lo + 2], a[lo + 1])))

\* mask = ~np.isnan(x) & (w > 0); media = sum(x*w) / sum(w), NaN if no row
MediaUnivariado(x, w) ==
    LET m == [i \in 1..Len(x) |-> ~IsNaN(x[i]) /\ Positivo(w[i])]
        xm == BoolIndex(x, m)
        wm == BoolIndex(w, m)
    IN  IF Len(xm) = 0 THEN NaN
        ELSE RDiv(NpSum([i \in 1..Len(xm) |-> RMul(xm[i], wm[i])]), NpSum(wm))

\* pd.DataFrame({"x": x, "w": w}).dropna(), then dfp.loc[dfp["w"] > 0]
Dfp(x, w) ==
    LET m == [i \in 1..Len(x) |-> ~IsNaN(x[i]) /\ ~IsNaN(w[i]) /\ Positivo(w[i])]
    IN  [x |-> BoolIndex(x, m), w |-> BoolIndex(w, m)]

\* dfp.loc[dfp.index.repeat(dfp["w"].astype(int))]["x"]
DfpRep(dfp) ==
    Concat([i \in 1..Len(dfp.x) |-> [j \in 1..AsInt(dfp.w[i]) |-> dfp.x[i]]])

UnivariadoGrupo(g) ==
    LET x == Column(g, "INGRESO_REAL")
        w == Column(g, "PONDERA")
        dfp == Dfp(x, w)
        rep == DfpRep(dfp)
        vacio == Len(dfp.x) = 0
    IN  [AGLOMERADO |-> g[1].AGLOMERADO,
         PERIODO |-> Periodo(g[1]),
         MEDIA |-> MediaUnivariado(x, w),
         MEDIANA |-> IF vacio THEN NaN ELSE Median(rep),
         Q25 |-> IF vacio THEN NaN ELSE Quantile(rep, <<1, 4>>),
         Q75 |-> IF vacio THEN NaN ELSE Quantile(rep, <<3, 4>>)]

CalcularUnivariado(t) ==
    LET ks == GroupKeys(t, KeyAgloTrim)
    IN  [j \in 1..Len(ks) |->
            UnivariadoGrupo(SelectSeq(t, LAMBDA r :
                r.AGLOMERADO = ks[j][1]
                /\ Periodo(r) = Periodo([ANO4 |-> ks[j][2], TRIMESTRE |-> ks[j][3]])))]

calcular_univariado ==
    /\ pc = "start"
    /\ tabla_uni' = CalcularUnivariado(df_ocup)
    /\ pc' = "tabla_uni"
    /\ UNCHANGED <<archivos, ramas, boxplot, limpieza, entradas, ipc_df, df_defl, aglos, tabla_aglo, tabla_aglo_trim,
                   salidasTasas>>

----------------------------------------------------------------------------
(* Inputs of the income summaries *)

Grupos == {<<31, 2024, 1>>, <<31, 2024, 2>>, <<34, 2024, 1>>}
Ingresos == {NaN, Num(10), Num(30)}
Ponderas == {Num(-1), Num(0), Frac(3, 4), Num(1), Frac(11, 4)}

OcupRows == {[AGLOMERADO |-> k[1], ANO4 |-> k[2], TRIMESTRE |-> k[3],
              INGRESO_REAL |-> x, PONDERA |-> w] :
                 k \in Grupos, x \in Ingresos, w \in Ponderas}

InitIngresos ==
    /\ pc = "start"
    /\ df_ocup \in SeqsUpTo(OcupRows, MaxRows)
    /\ ipc_file = [col |-> "IPC", rows |-> <<>>] /\ ipc_df = <<>>
    /\ df_eph = <<>> /\ ano_base = 2025 /\ trimestre_base = 2
    /\ df_defl = <<>> /\ df_recortado = <<>>
    /\ aglos = <<>> /\ tabla_aglo = <<>> /\ tabla_aglo_trim = <<>> /\ tabla_uni = <<>>
    /\ tasas = <<>> /\ df_tasas = <<>>
    /\ RamasSinUso /\ BoxplotSinUso /\ LimpiezaSinUso /\ ArchivosSinUso

NextIngresos ==
    \/ ingreso_promedio_por_aglomerado
    \/ ingreso_promedio_trimestral_por_aglomerado
    \/ calcular_univariado

SpecIngresos == InitIngresos /\ [][NextIngresos]_vars

----------------------------------------------------------------------------
(* src/src/tasas.py: calcular_tasas, tasas_trimestrales *)

EdadMinima == 18

\* df[df["CH06"] >= 18]: a NaN age compares False
FiltrarEdad(t) ==
    SelectSeq(t, LAMBDA r : ~IsNaN(r.CH06) /\ RLe(Num(EdadMinima), r.CH06))

\* (df["ESTADO"] == e).sum()
ContarEstado(t, e) == Len(SelectSeq(t, LAMBDA r : r.ESTADO = Num(e)))

\* mutant: the unemployment rate is taken over the population
CalcularTasas_tdpob(t) ==
    LET a == FiltrarEdad(t)
        poblacion == Len(a)
        ocupados == ContarEstado(a, 1)
        desocupados == ContarEstado(a, 2)
        pea == ocupados + desocupados
    IN  [TA |-> IF poblacion > 0 THEN Frac(pea, poblacion) ELSE Num(0),
         TE |-> IF poblacion > 0 THEN Frac(ocupados, poblacion) ELSE Num(0),
         TD |-> IF pea > 0 THEN Frac(desocupados, poblacion) ELSE Num(0)]

\* mutant: the employed and unemployed are counted before the age filter
CalcularTasas_sinfiltro(t) ==
    LET a == FiltrarEdad(t)
        poblacion == Len(a)
        ocupados == ContarEstado(t, 1)
        desocupados == ContarEstado(t, 2)
        pea == ocupados + desocupados
    IN  [TA |-> IF poblacion > 0 THEN Frac(pea, poblacion) ELSE Num(0),
         TE |-> IF poblacion > 0 THEN Frac(ocupados, poblacion) ELSE Num(0),
         TD |-> IF pea > 0 THEN Frac(desocupados, pea) ELSE Num(0)]

\* mutant: expansion factors are summed instead of counting persons
CalcularTasas_ponderado(t) ==
    LET a == FiltrarEdad(t)
        Peso(r) == IF IsNaN(r.PONDERA) THEN Num(0) ELSE r.PONDERA
        Suma(rs) == NpSum([i \in 1..Len(rs) |-> Peso(rs[i])])
        poblacion == Suma(a)
        ocupados == Suma(SelectSeq(a, LAMBDA r : r.ESTADO = Num(1)))
        desocupados == Suma(SelectSeq(a, LAMBDA r : r.ESTADO = Num(2)))
        pea == RAdd(ocupados, desocupados)
    IN  [TA |-> IF RLt(Num(0), poblacion) THEN RDiv(pea, poblacion) ELSE Num(0),
         TE |-> IF RLt(Num(0), poblacion) THEN RDiv(ocupados, poblacion) ELSE Num(0),
         TD |-> IF RLt(Num(0), pea) THEN RDiv(desocupados, pea) ELSE Num(0)]

CalcularTasas(t) ==
    LET a == FiltrarEdad(t)
        poblacion == Len(a)
        ocupados == ContarEstado(a, 1)
        desocupados == ContarEstado(a, 2)
        pea == ocupados + desocupados
    IN  [TA |-> IF poblacion > 0 THEN Frac(pea, poblacion) ELSE Num(0),
         TE |-> IF poblacion > 0 THEN Frac(ocupados, poblacion) ELSE Num(0),
         TD |-> IF pea > 0 THEN Frac(desocupados, pea) ELSE Num(0)]

TasasTrimestrales(t) ==
    LET a == FiltrarEdad(t)
        ks == GroupKeys(a, KeyAgloTrim)
    IN  [j \in 1..Len(ks) |->
            LET tg == CalcularTasas(Group(a, KeyAgloTrim, ks[j]))
            IN  [AGLOMERADO |-> ks[j][1], ANO4 |-> ks[j][2], TRIMESTRE |-> ks[j][3],
                 TA |-> tg.TA, TE |-> tg.TE, TD |-> tg.TD]]

calcular_tasas ==
    /\ pc = "start"
    /\ tasas' = <<CalcularTasas(df_recortado)>>
    /\ pc' = "tasas"
    /\ UNCHANGED <<archivos, ramas, boxplot, limpieza, entradas, ipc_df, df_defl, salidasIngresos, df_tasas>>

tasas_trimestrales ==
    /\ pc = "start"
    /\ df_tasas' = TasasTrimestrales(df_recortado)
    /\ pc' = "df_tasas"
    /\ UNCHANGED <<archivos, ramas, boxplot, limpieza, entradas, ipc_df, df_defl, salidasIngresos, tasas>>

----------------------------------------------------------------------------
(* Inputs of the rate functions *)

Edades == {NaN, Num(17), Num(18), Num(40)}
Estados == {NaN, Num(1), Num(2), Num(3)}

TasasRows == {[AGLOMERADO |-> k[1], ANO4 |-> k[2], TRIMESTRE |-> k[3],
               CH06 |-> e, ESTADO |-> st] :
                  k \in Grupos, e \in Edades, st \in Estados}

InitTasas ==
    /\ pc = "start"
    /\ df_recortado \in SeqsUpTo(TasasRows, MaxRows)
    /\ ipc_file = [col |-> "IPC", rows |-> <<>>] /\ ipc_df = <<>>
    /\ df_eph = <<>> /\ ano_base = 2025 /\ trimestre_base = 2
    /\ df_defl = <<>> /\ df_ocup = <<>>
    /\ aglos = <<>> /\ tabla_aglo = <<>> /\ tabla_aglo_trim = <<>> /\ tabla_uni = <<>>
    /\ tasas = <<>> /\ df_tasas = <<>>
    /\ RamasSinUso /\ BoxplotSinUso /\ LimpiezaSinUso /\ ArchivosSinUso

NextTasas == calcular_tasas \/ tasas_trimestrales

SpecTasas == InitTasas /\ [][NextTasas]_vars

\* tables that carry the expansion factor, as the table main.py passes to
\* tasas_trimestrales does
GruposPesos == {<<31, 2024, 1>>, <<34, 2024, 1>>}
\* age and status: three adults, one per status, and an employed minor
PersonasPesos == {<<Num(40), Num(1)>>, <<Num(40), Num(2)>>, <<Num(40), Num(3)>>,
                  <<Num(17), Num(1)>>}
PesosTasas == {NaN, Num(-1), Num(0), Num(2)}

TasasPesoRows == {[AGLOMERADO |-> k[1], ANO4 |-> k[2], TRIMESTRE |-> k[3],
                   CH06 |-> p[1], ESTADO |-> p[2], PONDERA |-> w] :
                      k \in GruposPesos, p \in PersonasPesos, w \in PesosTasas}

InitTasasPesos ==
    /\ pc = "start"
    /\ df_recortado \in SeqsUpTo(TasasPesoRows, MaxRows)
    /\ ipc_file = [col |-> "IPC", rows |-> <<>>] /\ ipc_df = <<>>
    /\ df_eph = <<>> /\ ano_base = 2025 /\ trimestre_base = 2
    /\ df_defl = <<>> /\ df_ocup = <<>>
    /\ aglos = <<>> /\ tabla_aglo = <<>> /\ tabla_aglo_trim = <<>> /\ tabla_uni = <<>>
    /\ tasas = <<>> /\ df_tasas = <<>>
    /\ RamasSinUso /\ BoxplotSinUso /\ LimpiezaSinUso /\ ArchivosSinUso

SpecTasasPesos == InitTasasPesos /\ [][NextTasas]_vars

----------------------------------------------------------------------------
(* src/src/te_ramas_participacion.py: _clasificar_rama, agregar_columna_rama *)

\* A raw cell may also hold text: <<1, n, 1>> is the string that spells the
\* integer n, <<0, 0, 1>> a string that spells no number
Str(n) == <<1, n, 1>>
Texto == <<0, 0, 1>>
IsStr(c) == Len(c) = 3

\* RAMA_TUR is None for a row that is in neither branch
Ninguna == "None"

\* int(x): truncation toward zero
PyInt(c) == IF c[1] >= 0 THEN c[1] \div c[2] ELSE -((-c[1]) \div c[2])

\* mutant: the upper ends of the ranges are taken as inclusive
clasificar_rama_cerrado(pp04b_cod) ==
    IF IsNaN(pp04b_cod) \/ pp04b_cod = Texto THEN Ninguna
    ELSE LET c == PyInt(IF IsStr(pp04b_cod) THEN Num(pp04b_cod[2]) ELSE pp04b_cod)
         IN  IF 1500 <= c /\ c <= 4000 THEN "Industria"
             ELSE IF (5000 <= c /\ c <= 6000) \/ (9100 <= c /\ c <= 9500)
                    THEN "Turismo"
                    ELSE Ninguna

\* _clasificar_rama: None for a missing code and for a value int() rejects
clasificar_rama(pp04b_cod) ==
    IF IsNaN(pp04b_cod) THEN Ninguna
    ELSE IF pp04b_cod = Texto THEN Ninguna
    ELSE LET c == PyInt(IF IsStr(pp04b_cod) THEN Num(pp04b_cod[2]) ELSE pp04b_cod)
         IN  IF 1500 <= c /\ c < 4000 THEN "Industria"
             ELSE IF (5000 <= c /\ c < 6000) \/ (9100 <= c /\ c < 9500)
                    THEN "Turismo"
                    ELSE Ninguna

\* "col" in df.columns; an empty table still carries its columns
HasColumn(t, col) == t = <<>> \/ col \in DOMAIN t[1]

AgregarColumnaRama(df) ==
    [i \in 1..Len(df) |-> [RAMA_TUR |-> clasificar_rama(df[i].PP04B_COD)] @@ df[i]]

agregar_columna_rama ==
    /\ pc = "start"
    /\ IF ~HasColumn(df_emp, "PP04B_COD")
         THEN /\ pc' = "KeyError"
              /\ UNCHANGED df_rama
         ELSE /\ df_rama' = AgregarColumnaRama(df_emp)
              /\ pc' = "rama"
    /\ UNCHANGED <<archivos, df_emp, df_part, boxplot, limpieza, entradas, ipc_df, df_defl,
                   salidasIngresos, salidasTasas>>

\* activity codes around every end of the three ranges
Codigos ==
    {NaN, Texto, Str(2000), Num(-1), Num(1499), Frac(2999, 2), Num(1500),
     Num(3999), Frac(7999, 2), Num(4000), Num(4999), Num(5000), Num(5999),
     Num(6000), Num(9099), Num(9100), Num(9499), Num(9500)}

CodRows == {[PP04B_COD |-> c] : c \in Codigos} \cup {[AGLOMERADO |-> 31]}

\* a table has one set of columns
MismasColumnas(t) == \A i \in 1..Len(t) : DOMAIN t[i] = DOMAIN t[1]

InitRama ==
    /\ pc = "start"
    /\ df_emp \in {t \in SeqsUpTo(CodRows, MaxRows) : MismasColumnas(t)}
    /\ df_rama = <<>> /\ df_part = <<>>
    /\ ipc_file = [col |-> "IPC", rows |-> <<>>] /\ ipc_df = <<>>
    /\ df_eph = <<>> /\ ano_base = 2025 /\ trimestre_base = 2
    /\ df_defl = <<>> /\ df_ocup = <<>> /\ df_recortado = <<>>
    /\ aglos = <<>> /\ tabla_aglo = <<>> /\ tabla_aglo_trim = <<>> /\ tabla_uni = <<>>
    /\ tasas = <<>> /\ df_tasas = <<>>
    /\ BoxplotSinUso /\ LimpiezaSinUso /\ ArchivosSinUso

NextRama == agregar_columna_rama

SpecRama == InitRama /\ [][NextRama]_vars

----------------------------------------------------------------------------
(* src/src/te_ramas_participacion.py: participacion_empleo_por_rama *)

\* pd.to_numeric(errors="coerce") of one cell
ToNumeric(c) ==
    IF IsNaN(c) THEN NaN
    ELSE IF IsStr(c) THEN (IF c = Texto THEN NaN ELSE Num(c[2]))
    ELSE c

\* float division of two column cells: x / 0 is +-inf, 0 / 0 is NaN
Inf == <<1, 0>>
NegInf == <<-1, 0>>
DivFloat(a, b) ==
    IF IsNaN(a) \/ IsNaN(b) THEN NaN
    ELSE IF b[1] = 0
           THEN (IF a[1] = 0 THEN NaN ELSE IF a[1] > 0 THEN Inf ELSE NegInf)
           ELSE RDiv(a, b)

\* the four to_numeric assignments (ANO4 is a key the model keeps an integer)
AsegurarTipos(df) ==
    [i \in 1..Len(df) |->
        [CH06 |-> ToNumeric(df[i].CH06), PONDERA |-> ToNumeric(df[i].PONDERA),
         ESTADO |-> ToNumeric(df[i].ESTADO)] @@ df[i]]

\* df[df["CH06"] >= edad_min]: a NaN age compares False
FiltrarEdadMin(df, edad_min) ==
    SelectSeq(df, LAMBDA r : ~IsNaN(r.CH06) /\ RLe(Num(edad_min), r.CH06))

\* df[df["ESTADO"] == 1]
FiltrarOcupados(df) == SelectSeq(df, LAMBDA r : r.ESTADO = Num(1))

\* groupby(...)["PONDERA"].sum(): missing weights are skipped
SumaPondera(g) == NpSum(SelectSeq(Column(g, "PONDERA"), LAMBDA w : ~IsNaN(w)))

KeyAgloAno == <<"AGLOMERADO", "ANO4">>

\* mutant: the denominator is taken over the classified rows only
OcupTotal_clasificados(ocup) ==
    LET c == SelectSeq(ocup, LAMBDA r : r.RAMA_TUR # Ninguna)
        keys == GroupKeys(c, KeyAgloAno)
    IN  [j \in 1..Len(keys) |->
            [AGLOMERADO |-> keys[j][1], ANO4 |-> keys[j][2],
             OCUPADOS_TOTALES |-> SumaPondera(Group(c, KeyAgloAno, keys[j]))]]

\* ocup_total: one row per (AGLOMERADO, ANO4) of df_ocup
OcupTotal(ocup) ==
    LET keys == GroupKeys(ocup, KeyAgloAno)
    IN  [j \in 1..Len(keys) |->
            [AGLOMERADO |-> keys[j][1], ANO4 |-> keys[j][2],
             OCUPADOS_TOTALES |-> SumaPondera(Group(ocup, KeyAgloAno, keys[j]))]]

\* the branches in the order groupby sorts them
Ramas == <<"Industria", "Turismo">>

\* num: one row per (AGLOMERADO, ANO4, RAMA_TUR) of the classified rows
OcupRama(ocup_rama) ==
    LET keys == GroupKeys(ocup_rama, KeyAgloAno)
        fila(k, b) ==
            LET g == SelectSeq(Group(ocup_rama, KeyAgloAno, k),
                               LAMBDA r : r.RAMA_TUR = b)
            IN  IF g = <<>> THEN <<>>
                ELSE <<[AGLOMERADO |-> k[1], ANO4 |-> k[2], RAMA_TUR |-> b,
                        OCUPADOS_RAMA |-> SumaPondera(g)]>>
    IN  Concat([j \in 1..Len(keys) |->
                   Concat([b \in 1..Len(Ramas) |-> fila(keys[j], Ramas[b])])])

\* num.merge(ocup_total, on=["AGLOMERADO", "ANO4"], how="left") for one row
MergeTotal(r, ocup_total) ==
    LET m == SelectSeq(ocup_total,
                       LAMBDA e : e.AGLOMERADO = r.AGLOMERADO /\ e.ANO4 = r.ANO4)
    IN  IF m = <<>> THEN <<[OCUPADOS_TOTALES |-> NaN] @@ r>>
        ELSE [i \in 1..Len(m) |-> [OCUPADOS_TOTALES |-> m[i].OCUPADOS_TOTALES] @@ r]

ParticipacionEmpleoPorRama(df, aglos_target, edad_min) ==
    LET d == FiltrarEdadMin(AsegurarTipos(FiltrarAglos(df, aglos_target)), edad_min)
        ocup == AgregarColumnaRama(FiltrarOcupados(d))
        ocup_total == OcupTotal(ocup)
        num == OcupRama(SelectSeq(ocup, LAMBDA r : r.RAMA_TUR # Ninguna))
        merged == Concat([j \in 1..Len(num) |-> MergeTotal(num[j], ocup_total)])
    IN  [j \in 1..Len(merged) |->
            [AGLOMERADO |-> merged[j].AGLOMERADO, ANO4 |-> merged[j].ANO4,
             RAMA |-> merged[j].RAMA_TUR,
             OCUPADOS_RAMA |-> merged[j].OCUPADOS_RAMA,
             OCUPADOS_TOTALES |-> merged[j].OCUPADOS_TOTALES,
             PART_RAMA |-> DivFloat(merged[j].OCUPADOS_RAMA,
                                    merged[j].OCUPADOS_TOTALES)]]

participacion_empleo_por_rama ==
    /\ pc = "start"
    /\ \E target \in AglosTargets :
         /\ aglos' = target
         /\ df_part' = ParticipacionEmpleoPorRama(df_emp, target, 18)
    /\ pc' = "part"
    /\ UNCHANGED <<archivos, df_emp, df_rama, boxplot, limpieza, entradas, ipc_df, df_defl,
                   tabla_aglo, tabla_aglo_trim, tabla_uni, salidasTasas>>

AgloAnos == {<<31, 2024>>, <<34, 2024>>}
CohortesEmp == {<<Num(1), Num(40)>>, <<Num(2), Num(40)>>, <<Num(1), Num(17)>>}
PonderasEmp == {Num(-1), Num(0), Num(2)}
CodigosEmp == {NaN, Num(2000), Num(5500)}

EmpRows ==
    {[AGLOMERADO |-> k[1], ANO4 |-> k[2], ESTADO |-> c[1], CH06 |-> c[2],
      PONDERA |-> w, PP04B_COD |-> cod] :
        k \in AgloAnos, c \in CohortesEmp, w \in PonderasEmp, cod \in CodigosEmp}

InitParticipacion ==
    /\ pc = "start"
    /\ df_emp \in SeqsUpTo(EmpRows, MaxRows)
    /\ df_rama = <<>> /\ df_part = <<>>
    /\ ipc_file = [col |-> "IPC", rows |-> <<>>] /\ ipc_df = <<>>
    /\ df_eph = <<>> /\ ano_base = 2025 /\ trimestre_base = 2
    /\ df_defl = <<>> /\ df_ocup = <<>> /\ df_recortado = <<>>
    /\ aglos = <<>> /\ tabla_aglo = <<>> /\ tabla_aglo_trim = <<>> /\ tabla_uni = <<>>
    /\ tasas = <<>> /\ df_tasas = <<>>
    /\ BoxplotSinUso /\ LimpiezaSinUso /\ ArchivosSinUso

NextParticipacion == participacion_empleo_por_rama

SpecParticipacion == InitParticipacion /\ [][NextParticipacion]_vars

----------------------------------------------------------------------------
(* src/src/boxplots.py: limpiar_boxplot *)

\* df[df["INGRESO_REAL"] > 0]: a NaN income compares False
FiltrarIngresoPositivo(df) == SelectSeq(df, LAMBDA r : Positivo(r.INGRESO_REAL))

\* mutant: only the first row with PONDERA <= 0 is removed
FiltrarPonderaPositiva_primera(df) ==
    LET malas == {i \in 1..Len(df) : ~Positivo(df[i].PONDERA)}
    IN  IF malas = {} THEN df
        ELSE LET i == CHOOSE j \in malas : \A k \in malas : j <= k
             IN  SubSeq(df, 1, i - 1) \o SubSeq(df, i + 1, Len(df))

\* df[df["PONDERA"] > 0]
FiltrarPonderaPositiva(df) == SelectSeq(df, LAMBDA r : Positivo(r.PONDERA))

\* df["INGRESO_REAL"].quantile(0.995)
Q995(df) == Quantile(Column(df, "INGRESO_REAL"), <<199, 200>>)

\* df[df["INGRESO_REAL"] <= q995]: nothing passes a NaN threshold
RecortarOutliers(df, q) ==
    SelectSeq(df, LAMBDA r : ~IsNaN(q) /\ RLe(r.INGRESO_REAL, q))

\* step 4: the age filter, applied only when the CH06 column exists
FiltrarEdadSiExiste(df) ==
    IF HasColumn(df, "CH06") THEN FiltrarEdadMin(df, 18) ELSE df

\* steps 2 and 3 up to the threshold: the rows the quantile is taken over
ValidosBoxplot(df) == FiltrarPonderaPositiva(FiltrarIngresoPositivo(df))

LimpiarBoxplot(df) ==
    FiltrarEdadSiExiste(RecortarOutliers(ValidosBoxplot(df), Q995(ValidosBoxplot(df))))

limpiar_boxplot ==
    /\ pc = "start"
    /\ IF ~HasColumn(df_box, "INGRESO_REAL")
         THEN /\ pc' = "ValueError"
              /\ UNCHANGED <<q995, df_box_out>>
         ELSE /\ q995' = Q995(ValidosBoxplot(df_box))
              /\ df_box_out' = LimpiarBoxplot(df_box)
              /\ pc' = "boxplot"
    /\ UNCHANGED <<archivos, df_box, ramas, limpieza, entradas, ipc_df, df_defl,
                   salidasIngresos, salidasTasas>>

IngresosBox == {NaN, Num(0), Num(10), Num(30), Num(100)}
PonderasBox == {Num(0), Num(1)}
EdadesBox == {Num(17), Num(40)}

BoxRows ==
    {[INGRESO_REAL |-> x, PONDERA |-> w, CH06 |-> e] :
        x \in IngresosBox, w \in PonderasBox, e \in EdadesBox}
    \cup {[INGRESO_REAL |-> x, PONDERA |-> w] : x \in IngresosBox, w \in PonderasBox}
    \cup {[PONDERA |-> w] : w \in PonderasBox}

InitBoxplot ==
    /\ pc = "start"
    /\ df_box \in {t \in SeqsUpTo(BoxRows, MaxRows) : MismasColumnas(t)}
    /\ q995 = <<>> /\ df_box_out = <<>>
    /\ ipc_file = [col |-> "IPC", rows |-> <<>>] /\ ipc_df = <<>>
    /\ df_eph = <<>> /\ ano_base = 2025 /\ trimestre_base = 2
    /\ df_defl = <<>> /\ df_ocup = <<>> /\ df_recortado = <<>>
    /\ aglos = <<>> /\ tabla_aglo = <<>> /\ tabla_aglo_trim = <<>> /\ tabla_uni = <<>>
    /\ tasas = <<>> /\ df_tasas = <<>>
    /\ RamasSinUso /\ LimpiezaSinUso /\ ArchivosSinUso

NextBoxplot == limpiar_boxplot

SpecBoxplot == InitBoxplot /\ [][NextBoxplot]_vars

----------------------------------------------------------------------------
(* src/src/ingresos.py: filtrar_adultos, filtrar_ocupados, calcular_ingresos *)

\* filtrar_adultos: the age filter when the table has a CH06 column,
\* otherwise the table itself
FiltrarAdultos(df) ==
    IF HasColumn(df, "CH06") THEN FiltrarEdadMin(df, 18) ELSE df

\* the whole of calcular_ingresos: load_ipc, deflactar_ingreso,
\* filtrar_adultos, filtrar_ocupados and the two mean tables; an exception
\* of a step ends the call with nothing returned
calcular_ingresos ==
    /\ pc = "start"
    /\ IF ~load_ipc_ok(ipc_file)
         THEN /\ pc' = "KeyError"
              /\ UNCHANGED <<ipc_df, df_defl, df_ocup, salidasIngresos>>
         ELSE LET ipc == load_ipc_result(ipc_file)
                  sel == IpcBaseSel(ipc, ano_base, trimestre_base)
              IN  IF sel = <<>>
                    THEN /\ pc' = "IndexError"
                         /\ UNCHANGED <<ipc_df, df_defl, df_ocup, salidasIngresos>>
                    ELSE LET adultos == FiltrarAdultos(
                                 AddIngresoReal(MergeLeft(df_eph, ipc), sel[1].IPC))
                             ocup == FiltrarOcupados(adultos)
                         IN  \E target \in AglosTargets :
                               /\ ipc_df' = ipc
                               /\ df_defl' = adultos
                               /\ df_ocup' = ocup
                               /\ aglos' = target
                               /\ tabla_aglo' = IngresoPromedioPorAglomerado(ocup, target)
                               /\ tabla_aglo_trim' =
                                      IngresoPromedioTrimestralPorAglomerado(ocup, target)
                               /\ UNCHANGED tabla_uni
                               /\ pc' = "ingresos"
    /\ UNCHANGED <<archivos, ipc_file, df_eph, ano_base, trimestre_base, df_recortado,
                   ramas, boxplot, limpieza, salidasTasas>>

IpcFiles ==
    {[col |-> c, rows |-> rs] :
        c \in {"IPC_INDEX", "INDICE"},
        rs \in {<<[ANO4 |-> 2024, TRIMESTRE |-> 1, IPC |-> Num(100)]>>,
                <<[ANO4 |-> 2024, TRIMESTRE |-> 1, IPC |-> Num(100)],
                  [ANO4 |-> 2025, TRIMESTRE |-> 2, IPC |-> Num(200)]>>}}

EdadesEph == {NaN, Num(17), Num(40)}
EstadosEph == {Num(1), Num(2)}

PersonaRows ==
    {[AGLOMERADO |-> a, ANO4 |-> p[1], TRIMESTRE |-> p[2], P47T |-> Num(100),
      PONDERA |-> Num(1), ESTADO |-> e] :
        a \in {31, 34}, p \in PeriodosIpc, e \in EstadosEph}

\* the rows of df_eph, with and without an age column
FullRows ==
    {[CH06 |-> c] @@ r : c \in EdadesEph, r \in PersonaRows} \cup PersonaRows

InitCalcularIngresos ==
    /\ pc = "start"
    /\ ipc_file \in IpcFiles
    /\ df_eph \in {t \in SeqsUpTo(FullRows, MaxRows) : MismasColumnas(t)}
    /\ ano_base = 2025 /\ trimestre_base = 2
    /\ ipc_df = <<>> /\ df_defl = <<>> /\ df_ocup = <<>> /\ df_recortado = <<>>
    /\ aglos = <<>> /\ tabla_aglo = <<>> /\ tabla_aglo_trim = <<>> /\ tabla_uni = <<>>
    /\ tasas = <<>> /\ df_tasas = <<>>
    /\ RamasSinUso /\ BoxplotSinUso /\ LimpiezaSinUso /\ ArchivosSinUso

NextCalcularIngresos == calcular_ingresos

SpecCalcularIngresos == InitCalcularIngresos /\ [][NextCalcularIngresos]_vars

----------------------------------------------------------------------------
(* src/src/cleaning.py: the steps of generar_eph_limpia.  The steps assign *)
(* into the DataFrame they are given and return that same object, so the   *)
(* one variable df_cruda is both their argument and their result.          *)

NO_RESPUESTA == {Num(9), Num(99), Num(-1)}

COLS_CON_NA ==
    {"CH04", "CH05", "CH06", "CH07", "CH08", "CAT_OCUP", "CAT_INAC",
     "PP04A", "PP04B_COD", "P47T"}

NUMERIC_COLS == {"ANO4", "TRIMESTRE", "AGLOMERADO", "PONDERA", "ESTADO", "CH06", "P47T"}

STANDARD_COLS == {"ANO4", "TRIMESTRE", "AGLOMERADO", "ESTADO", "PONDERA", "P47T", "CH06"}

\* load_raw_eph: the rows of the files, a missing standard column added as NaN
LoadRawEph(files) ==
    [i \in 1..Len(files) |->
        [c \in STANDARD_COLS \ DOMAIN files[i] |-> NaN] @@ files[i]]

\* Series.replace([9, 99, -1], np.nan) on one cell: a number equal to a code
\* becomes NaN, a string is equal to no number and stays
ReplaceCell(c) == IF c \in NO_RESPUESTA THEN NaN ELSE c

ReplaceNoRespuesta(df) ==
    [i \in 1..Len(df) |->
        [c \in DOMAIN df[i] |->
            IF c \in COLS_CON_NA THEN ReplaceCell(df[i][c]) ELSE df[i][c]]]

\* to_numeric on the numeric columns, then negative P47T -> NaN
ConvertCell(col, c) ==
    LET v == IF col \in NUMERIC_COLS THEN ToNumeric(c) ELSE c
    IN  IF col = "P47T" /\ ~IsNaN(v) /\ RLt(v, Num(0)) THEN NaN ELSE v

ConvertNumeric(df) ==
    [i \in 1..Len(df) |-> [c \in DOMAIN df[i] |-> ConvertCell(c, df[i][c])]]

\* astype(int).astype(str) + "-T" + astype(int).astype(str)
PeriodoStr(r) == ToString(PyInt(r.ANO4)) \o "-T" \o ToString(PyInt(r.TRIMESTRE))

\* astype(int) raises on a column that holds a NaN
AstypeIntFalla(df, col) == \E i \in 1..Len(df) : IsNaN(df[i][col])

CreatePeriodColumn(df) ==
    [i \in 1..Len(df) |->
        [PERIODO |-> IF HasColumn(df, "ANO4") /\ HasColumn(df, "TRIMESTRE")
                       THEN PeriodoStr(df[i]) ELSE NaN] @@ df[i]]

load_raw_eph ==
    /\ pc = "start"
    /\ df_cruda' = LoadRawEph(eph_cruda)
    /\ pc' = "cruda"
    /\ UNCHANGED <<archivos, eph_cruda, ramas, boxplot, entradas, ipc_df, df_defl,
                   salidasIngresos, salidasTasas>>

replace_no_respuesta ==
    /\ pc = "cruda"
    /\ df_cruda' = ReplaceNoRespuesta(df_cruda)
    /\ pc' = "na"
    /\ UNCHANGED <<archivos, eph_cruda, ramas, boxplot, entradas, ipc_df, df_defl,
                   salidasIngresos, salidasTasas>>

convert_numeric ==
    /\ pc = "na"
    /\ df_cruda' = ConvertNumeric(df_cruda)
    /\ pc' = "numeric"
    /\ UNCHANGED <<archivos, eph_cruda, ramas, boxplot, entradas, ipc_df, df_defl,
                   salidasIngresos, salidasTasas>>

create_period_column ==
    /\ pc = "numeric"
    /\ IF /\ HasColumn(df_cruda, "ANO4") /\ HasColumn(df_cruda, "TRIMESTRE")
          /\ (AstypeIntFalla(df_cruda, "ANO4") \/ AstypeIntFalla(df_cruda, "TRIMESTRE"))
         THEN \* the cast raises before PERIODO is assigned
              /\ pc' = "ValueError"
              /\ UNCHANGED df_cruda
         ELSE /\ df_cruda' = CreatePeriodColumn(df_cruda)
              /\ pc' = "periodo"
    /\ UNCHANGED <<archivos, eph_cruda, ramas, boxplot, entradas, ipc_df, df_defl,
                   salidasIngresos, salidasTasas>>

\* the raw rows: one typical row and the rows that differ from it in one cell
BaseCruda ==
    [ANO4 |-> Num(2024), TRIMESTRE |-> Num(1), CH06 |-> Num(40),
     CAT_OCUP |-> Num(3), P47T |-> Num(100)]

Variaciones ==
    ({"ANO4"} \X {Num(2024), NaN, Str(2024), Texto})
    \cup ({"TRIMESTRE"} \X {NaN, Str(1)})
    \cup ({"CH06"} \X {Num(9), Str(9), Num(99), Str(99), Num(-1), Str(-1), NaN})
    \cup ({"CAT_OCUP"} \X {Num(9), Str(9), NaN})
    \cup ({"P47T"} \X {Num(-1), Str(-1), Num(-5), Num(9), Str(9)})

CrudaRows ==
    {[BaseCruda EXCEPT ![v[1]] = v[2]] : v \in Variaciones}
    \cup {[TRIMESTRE |-> Num(1), CH06 |-> Num(40), CAT_OCUP |-> Num(3),
           P47T |-> Num(100)]}

InitLimpieza ==
    /\ pc = "start"
    /\ eph_cruda \in {t \in SeqsUpTo(CrudaRows, MaxRows) : MismasColumnas(t)}
    /\ df_cruda = <<>>
    /\ ipc_file = [col |-> "IPC", rows |-> <<>>] /\ ipc_df = <<>>
    /\ df_eph = <<>> /\ ano_base = 2025 /\ trimestre_base = 2
    /\ df_defl = <<>> /\ df_ocup = <<>> /\ df_recortado = <<>>
    /\ aglos = <<>> /\ tabla_aglo = <<>> /\ tabla_aglo_trim = <<>> /\ tabla_uni = <<>>
    /\ tasas = <<>> /\ df_tasas = <<>>
    /\ RamasSinUso /\ BoxplotSinUso /\ ArchivosSinUso

NextLimpieza ==
    load_raw_eph \/ replace_no_respuesta \/ convert_numeric \/ create_period_column

SpecLimpieza == InitLimpieza /\ [][NextLimpieza]_vars

----------------------------------------------------------------------------
(* src/main.py: versionar_archivo and the steps of the pipeline script.    *)
(* A file is <<path, N>>: the path itself for N = 1, base_vN.ext for       *)
(* N >= 2 (no path of the pipeline ends in _vN).                           *)

\* mutant: the candidate base_v2.ext is returned without looking at the disk
VersionarArchivo_v2(files, path) ==
    IF <<path, 1>> \notin files THEN <<path, 1>> ELSE <<path, 2>>

\* the while loop of versionar_archivo, entered with version
RECURSIVE VersionarBucle(_, _, _)
VersionarBucle(files, path, version) ==
    IF <<path, version>> \notin files THEN <<path, version>>
    ELSE VersionarBucle(files, path, version + 1)

\* versionar_archivo(path) on a disk that holds files
VersionarArchivo(files, path) ==
    IF <<path, 1>> \notin files THEN <<path, 1>>
    ELSE VersionarBucle(files, path, 2)

\* the versioned paths of an export step are all computed, then written
Destinos(files, paths) == {VersionarArchivo(files, p) : p \in paths}

DATA_LIMPIA == "data/EPH_datos_limpios.csv"
DATA_LIMPIA_RECORTADA == "data/EPH_datos_limpios_31_34.csv"

ArchivosIngresos ==
    {"ingresos_deflactados.csv", "ingresos_ocupados.csv",
     "ingreso_prom_aglomerado.csv", "ingreso_prom_aglomerado.xlsx",
     "ingreso_prom_trimestral_aglomerado.csv",
     "ingreso_prom_trimestral_aglomerado.xlsx"}
ArchivosTasas == {"tasas_trimestrales.csv", "tasas_trimestrales.xlsx"}
ArchivosTeRamas == {"tasas_empleo_ramas.csv", "tasas_empleo_ramas.xlsx"}
ArchivosParticipacion ==
    {"participacion_empleo_ramas.csv", "participacion_empleo_ramas.xlsx",
     "part_ramas_aglo_31.png", "part_ramas_aglo_34.png"}

\* steps 6 to 8 and the univariate charts: position, files written, next position
PasosGraficos ==
    <<[en |-> "main_6", salidas |-> {"mapa_31.png", "mapa_34.png"}, sig |-> "main_7"],
      [en |-> "main_7", salidas |-> {"tasas_31.png", "ingreso_trimestral_31.png"},
       sig |-> "main_8"],
      [en |-> "main_8", salidas |-> {"boxplot_ingresos.png"}, sig |-> "main_8b"],
      [en |-> "main_8b", salidas |-> {"univariado_31.png"}, sig |-> "main_9"]>>

\* step 1: generar_eph_limpia unless the clean file exists; the cleaning of
\* the raw files either writes the clean file or raises
main_limpia ==
    /\ pc = "main"
    /\ \/ /\ <<DATA_LIMPIA, 1>> \in fs
          /\ pc' = "main_2" /\ UNCHANGED fs
       \/ /\ <<DATA_LIMPIA, 1>> \notin fs
          /\ \/ pc' = "main_2" /\ fs' = fs \cup {<<DATA_LIMPIA, 1>>}
             \/ pc' = "ValueError" /\ UNCHANGED fs
    /\ UNCHANGED <<destinos, ramas, boxplot, limpieza, entradas, ipc_df, df_defl,
                   salidasIngresos, salidasTasas>>

\* step 2: generar_archivo_recortado
main_recortado ==
    /\ pc = "main_2"
    /\ IF <<DATA_LIMPIA_RECORTADA, 1>> \in fs
         THEN pc' = "main_3" /\ UNCHANGED fs
         ELSE IF <<DATA_LIMPIA, 1>> \notin fs
                THEN pc' = "FileNotFoundError" /\ UNCHANGED fs
                ELSE pc' = "main_3" /\ fs' = fs \cup {<<DATA_LIMPIA_RECORTADA, 1>>}
    /\ UNCHANGED <<destinos, ramas, boxplot, limpieza, entradas, ipc_df, df_defl,
                   salidasIngresos, salidasTasas>>

\* the tables the trimmed clean file may hold
MainRows ==
    {[PP04B_COD |-> Num(2000)] @@ r :
        r \in {x \in FullRows :
                  /\ x.AGLOMERADO = 31 /\ x.ANO4 = 2025
                  /\ "CH06" \in DOMAIN x => x.CH06 # Num(17)}}

MainTables == {t \in SeqsUpTo(MainRows, MaxRows) : MismasColumnas(t)}

\* step 3: df = pd.read_csv(DATA_LIMPIA_RECORTADA); calcular_ingresos is next
main_cargar ==
    /\ pc = "main_3"
    /\ df_eph' \in MainTables
    /\ pc' = "start"
    /\ UNCHANGED <<archivos, ramas, boxplot, limpieza, ipc_file, ano_base,
                   trimestre_base, df_ocup, df_recortado, ipc_df, df_defl,
                   salidasIngresos, salidasTasas>>

\* step 4 after calcular_ingresos returned: the six income exports
main_exportar_ingresos ==
    /\ pc = "ingresos"
    /\ destinos' = Destinos(fs, ArchivosIngresos)
    /\ fs' = fs \cup destinos'
    /\ pc' = "main_5"
    /\ UNCHANGED <<ramas, boxplot, limpieza, entradas, ipc_df, df_defl,
                   salidasIngresos, salidasTasas>>

\* step 5: tasas_trimestrales(df) and its two exports
main_tasas ==
    /\ pc = "main_5"
    /\ IF ~HasColumn(df_eph, "CH06")
         THEN /\ pc' = "KeyError"
              /\ UNCHANGED <<archivos, df_tasas>>
         ELSE /\ df_tasas' = TasasTrimestrales(df_eph)
              /\ destinos' = Destinos(fs, ArchivosTasas)
              /\ fs' = fs \cup destinos'
              /\ pc' = "main_6"
    /\ UNCHANGED <<tasas, ramas, boxplot, limpieza, entradas, ipc_df, df_defl,
                   salidasIngresos>>

\* steps 6 to 8 and the univariate charts
main_graficos ==
    /\ \E k \in DOMAIN PasosGraficos :
         /\ pc = PasosGraficos[k].en
         /\ destinos' = Destinos(fs, PasosGraficos[k].salidas)
         /\ fs' = fs \cup destinos'
         /\ pc' = PasosGraficos[k].sig
    /\ UNCHANGED <<ramas, boxplot, limpieza, entradas, ipc_df, df_defl,
                   salidasIngresos, salidasTasas>>

\* step 9: src/te_ramas.py; the module either fails to run or exports
main_te_ramas ==
    /\ pc = "main_9"
    /\ \/ pc' = "ImportError" /\ UNCHANGED archivos
       \/ /\ destinos' = Destinos(fs, ArchivosTeRamas)
          /\ fs' = fs \cup destinos'
          /\ pc' = "main_10"
    /\ UNCHANGED <<ramas, boxplot, limpieza, entradas, ipc_df, df_defl,
                   salidasIngresos, salidasTasas>>

\* step 10: participacion_empleo_por_rama(df, [31, 34]) and its exports
main_participacion ==
    /\ pc = "main_10"
    /\ df_part' = ParticipacionEmpleoPorRama(df_eph, <<{31, 34}>>, 18)
    /\ destinos' = Destinos(fs, ArchivosParticipacion)
    /\ fs' = fs \cup destinos'
    /\ pc' = "fin"
    /\ UNCHANGED <<df_emp, df_rama, boxplot, limpieza, entradas, ipc_df, df_defl,
                   salidasIngresos, salidasTasas>>

ArchivosDeSalida ==
    ArchivosIngresos \cup ArchivosTasas \cup ArchivosTeRamas
    \cup ArchivosParticipacion
    \cup UNION {PasosGraficos[k].salidas : k \in DOMAIN PasosGraficos}

\* the disk before the run: the data files may exist, and an earlier run
\* may have left its outputs
InitMain ==
    /\ pc = "main"
    /\ \E datos \in SUBSET {<<DATA_LIMPIA, 1>>, <<DATA_LIMPIA_RECORTADA, 1>>} :
       \E previas \in {{}, {<<p, 1>> : p \in ArchivosDeSalida}} :
          fs = datos \cup previas
    /\ destinos = {}
    /\ ipc_file \in IpcFiles
    /\ df_eph = <<>> /\ ano_base = 2025 /\ trimestre_base = 2
    /\ ipc_df = <<>> /\ df_defl = <<>> /\ df_ocup = <<>> /\ df_recortado = <<>>
    /\ aglos = <<>> /\ tabla_aglo = <<>> /\ tabla_aglo_trim = <<>> /\ tabla_uni = <<>>
    /\ tasas = <<>> /\ df_tasas = <<>>
    /\ RamasSinUso /\ BoxplotSinUso /\ LimpiezaSinUso

NextMain ==
    \/ main_limpia \/ main_recortado \/ main_cargar \/ calcular_ingresos
    \/ main_exportar_ingresos \/ main_tasas \/ main_graficos \/ main_te_ramas
    \/ main_participacion

SpecMain == InitMain /\ [][NextMain]_vars

(* src/src/te_ramas_participacion.py: versionar_archivo and                 *)
(* exportar_participacion_rama; repeated exports on one disk                *)

\* versionar_archivo(path) of te_ramas_participacion.py
VersionarArchivoRama(files, path) ==
    IF <<path, 1>> \notin files THEN <<path, 1>>
    ELSE VersionarBucle(files, path, 2)

TablaParticipacion ==
    {"participacion_empleo_ramas.csv", "participacion_empleo_ramas.xlsx"}

\* exportar_participacion_rama(df_part): both paths are versioned, then both
\* files are written; the pair of paths is returned
exportar_participacion_rama ==
    /\ pc = "export"
    /\ destinos' = {VersionarArchivoRama(fs, p) : p \in TablaParticipacion}
    /\ \A d \in destinos' : d[2] <= MaxVersion
    /\ fs' = fs \cup destinos'
    /\ UNCHANGED <<pc, ramas, boxplot, limpieza, entradas, ipc_df, df_defl,
                   salidasIngresos, salidasTasas>>

\* the exports of step 5 of main.py, with the versionar_archivo of main.py
exportar_tasas_trimestrales ==
    /\ pc = "export"
    /\ destinos' = Destinos(fs, ArchivosTasas)
    /\ \A d \in destinos' : d[2] <= MaxVersion
    /\ fs' = fs \cup destinos'
    /\ UNCHANGED <<pc, ramas, boxplot, limpieza, entradas, ipc_df, df_defl,
                   salidasIngresos, salidasTasas>>

ArchivosExport == TablaParticipacion \cup ArchivosTasas

\* any finite set of files may exist before the first export
InitExport ==
    /\ pc = "export"
    /\ fs \in SUBSET (ArchivosExport \X (1..MaxVersion))
    /\ destinos = {}
    /\ ipc_file = [col |-> "IPC", rows |-> <<>>] /\ ipc_df = <<>>
    /\ df_eph = <<>> /\ ano_base = 2025 /\ trimestre_base = 2
    /\ df_defl = <<>> /\ df_ocup = <<>> /\ df_recortado = <<>>
    /\ aglos = <<>> /\ tabla_aglo = <<>> /\ tabla_aglo_trim = <<>> /\ tabla_uni = <<>>
    /\ tasas = <<>> /\ df_tasas = <<>>
    /\ RamasSinUso /\ BoxplotSinUso /\ LimpiezaSinUso

NextExport == exportar_participacion_rama \/ exportar_tasas_trimestrales

SpecExport == InitExport /\ [][NextExport]_vars

----------------------------------------------------------------------------

----------------------------------------------------------------------------
(* Properties of the Price Deflator (checked under SpecDeflate) *)

\* the entries of the index for a period
Entradas(ipc, ano, trim) ==
    {i \in 1..Len(ipc) : ipc[i].ANO4 = ano /\ ipc[i].TRIMESTRE = trim}

\* the index is keyed by period: one entry per (year, quarter)
IndiceUnico(ipc) ==
    \A i, j \in 1..Len(ipc) :
        (ipc[i].ANO4 = ipc[j].ANO4 /\ ipc[i].TRIMESTRE = ipc[j].TRIMESTRE) => i = j

\* the index value of a period of a keyed index
Indice(ipc, ano, trim) == ipc[CHOOSE i \in Entradas(ipc, ano, trim) : TRUE].IPC

BaseAusente == Entradas(ipc_df, ano_base, trimestre_base) = {}

DeflateCalled == pc \in {"deflated", "IndexError"}

\* C1: when the index has no entry for (ano_base, trimestre_base), the call
\* to deflactar_ingreso raises and returns no table: no row ever carries an
\* INGRESO_REAL.
C1_BaseAusenteFalla ==
    (DeflateCalled /\ BaseAusente) => (pc = "IndexError" /\ df_defl = <<>>)

C1_Witness ==
    /\ pc = "IndexError"
    /\ BaseAusente
    /\ Len(ipc_df) > 0
    /\ \E i \in 1..Len(df_eph) : ~IsNaN(df_eph[i].P47T)

\* x = nominal * (base / idx), stated by cross-multiplication on integers
EsDeflactado(x, nominal, base, idx) ==
    /\ ~IsNaN(x)
    /\ x[1] * (nominal[2] * base[2] * idx[1]) = x[2] * (nominal[1] * base[1] * idx[2])

C3_LeftJoin ==
    (DeflateCalled /\ IndiceUnico(ipc_df) /\ ~BaseAusente) =>
        /\ pc = "deflated"
        /\ Len(df_defl) = Len(df_eph)
        /\ \A i \in 1..Len(df_eph) :
              /\ i \in DOMAIN df_defl
              /\ df_defl[i].ANO4 = df_eph[i].ANO4
              /\ df_defl[i].TRIMESTRE = df_eph[i].TRIMESTRE
              /\ df_defl[i].P47T = df_eph[i].P47T
              /\ Entradas(ipc_df, df_eph[i].ANO4, df_eph[i].TRIMESTRE) = {}
                    => IsNaN(df_defl[i].INGRESO_REAL)

C3_Witness ==
    /\ pc = "deflated"
    /\ IndiceUnico(ipc_df)
    /\ Len(ipc_df) > 1
    /\ Len(df_defl) > 1
    /\ \E i \in 1..Len(df_eph) :
          /\ Entradas(ipc_df, df_eph[i].ANO4, df_eph[i].TRIMESTRE) = {}
          /\ ~IsNaN(df_eph[i].P47T)
    /\ \E i \in 1..Len(df_eph) :
          Entradas(ipc_df, df_eph[i].ANO4, df_eph[i].TRIMESTRE) # {}

----------------------------------------------------------------------------
(* Properties of the income summaries (checked under SpecIngresos) *)

RECURSIVE SumaSobre(_, _)
SumaSobre(S, f) ==
    IF S = {} THEN Num(0)
    ELSE LET i == CHOOSE j \in S : TRUE
         IN  RAdd(f[i], SumaSobre(S \ {i}, f))

\* rows of df_ocup that count for a weighted statistic: income present, weight > 0
Elegible(i) ==
    /\ ~IsNaN(df_ocup[i].INGRESO_REAL)
    /\ ~IsNaN(df_ocup[i].PONDERA)
    /\ df_ocup[i].PONDERA[1] > 0

FilasAglo(a) == {i \in 1..Len(df_ocup) : df_ocup[i].AGLOMERADO = a}
FilasAgloTrim(a, y, q) ==
    {i \in FilasAglo(a) : df_ocup[i].ANO4 = y /\ df_ocup[i].TRIMESTRE = q}
FilasAgloPeriodo(a, p) == {i \in FilasAglo(a) : Periodo(df_ocup[i]) = p}

\* m is sum(x_i * w_i) / sum(w_i) over the eligible rows of G, missing if none
EsMediaPonderada(m, G) ==
    LET E == {i \in G : Elegible(i)}
        xw == [i \in E |-> RMul(df_ocup[i].INGRESO_REAL, df_ocup[i].PONDERA)]
        ww == [i \in E |-> df_ocup[i].PONDERA]
    IN  IF E = {} THEN IsNaN(m)
        ELSE ~IsNaN(m) /\ RMul(m, SumaSobre(E, ww)) = SumaSobre(E, xw)

Admitido(a) == aglos = <<>> \/ a \in aglos[1]

\* C5: in the general, periodic and univariate summaries every group has one
\* row, whose mean is sum(x_i * w_i) / sum(w_i) over the rows of the group
\* with INGRESO_REAL present and PONDERA > 0, and is missing (NaN) when the
\* group has no such row.
C5_MediaPonderada ==
    /\ pc = "tabla_aglo" =>
          /\ \A j \in 1..Len(tabla_aglo) :
                EsMediaPonderada(tabla_aglo[j].INGRESO_REAL_PROM,
                                 FilasAglo(tabla_aglo[j].AGLOMERADO))
          /\ \A i \in 1..Len(df_ocup) :
                Admitido(df_ocup[i].AGLOMERADO) =>
                    Cardinality({j \in 1..Len(tabla_aglo) :
                        tabla_aglo[j].AGLOMERADO = df_ocup[i].AGLOMERADO}) = 1
    /\ pc = "tabla_aglo_trim" =>
          /\ \A j \in 1..Len(tabla_aglo_trim) :
                EsMediaPonderada(tabla_aglo_trim[j].INGRESO_REAL_PROM,
                                 FilasAgloTrim(tabla_aglo_trim[j].AGLOMERADO,
                                               tabla_aglo_trim[j].ANO4,
                                               tabla_aglo_trim[j].TRIMESTRE))
          /\ \A i \in 1..Len(df_ocup) :
                Admitido(df_ocup[i].AGLOMERADO) =>
                    Cardinality({j \in 1..Len(tabla_aglo_trim) :
                        /\ tabla_aglo_trim[j].AGLOMERADO = df_ocup[i].AGLOMERADO
                        /\ tabla_aglo_trim[j].ANO4 = df_ocup[i].ANO4
                        /\ tabla_aglo_trim[j].TRIMESTRE = df_ocup[i].TRIMESTRE}) = 1
    /\ pc = "tabla_uni" =>
          /\ \A j \in 1..Len(tabla_uni) :
                EsMediaPonderada(tabla_uni[j].MEDIA,
                                 FilasAgloPeriodo(tabla_uni[j].AGLOMERADO,
                                                  tabla_uni[j].PERIODO))
          /\ \A i \in 1..Len(df_ocup) :
                Cardinality({j \in 1..Len(tabla_uni) :
                    /\ tabla_uni[j].AGLOMERADO = df_ocup[i].AGLOMERADO
                    /\ tabla_uni[j].PERIODO = Periodo(df_ocup[i])}) = 1

\* a mean that mixes two eligible rows of different income and weight, next
\* to rows that are not eligible
C5_Witness ==
    /\ pc = "tabla_aglo"
    /\ \E j \in 1..Len(tabla_aglo) :
          LET E == {i \in FilasAglo(tabla_aglo[j].AGLOMERADO) : Elegible(i)}
          IN  \E i1, i2 \in E :
                 /\ df_ocup[i1].INGRESO_REAL # df_ocup[i2].INGRESO_REAL
                 /\ df_ocup[i1].PONDERA # df_ocup[i2].PONDERA
                 /\ ~IsNaN(tabla_aglo[j].INGRESO_REAL_PROM)

\* round(w): to the nearest integer, halves to the even one
Redondear(w) ==
    LET fl == w[1] \div w[2]
        r2 == 2 * (w[1] - fl * w[2])
    IN  IF r2 < w[2] THEN fl
        ELSE IF r2 > w[2] THEN fl + 1
        ELSE IF fl % 2 = 0 THEN fl ELSE fl + 1

Truncar(w) == w[1] \div w[2]

RECURSIVE Cuenta(_, _)
Cuenta(S, rep) ==
    IF S = {} THEN 0
    ELSE LET i == CHOOSE j \in S : TRUE
         IN  rep[i] + Cuenta(S \ {i}, rep)

\* the k-th smallest element of the multiset in which row i of E appears
\* rep[i] times
KEsimo(E, rep, k) ==
    LET le(v) == Cuenta({i \in E : RLe(df_ocup[i].INGRESO_REAL, v)}, rep)
        lt(v) == Cuenta({i \in E : RLt(df_ocup[i].INGRESO_REAL, v)}, rep)
    IN  CHOOSE v \in {df_ocup[i].INGRESO_REAL : i \in {j \in E : rep[j] > 0}} :
            lt(v) < k /\ k <= le(v)

\* v is the sample quantile cuartos/4 of that multiset: the order statistic
\* at position (n - 1) * cuartos / 4, interpolated linearly between the two
\* neighbours when the position is not whole; missing for the empty multiset
EsCuantil(v, G, rep, cuartos) ==
    LET E == {i \in G : Elegible(i)}
        n == Cuenta(E, rep)
        pos == (n - 1) * cuartos
        lo == pos \div 4
        r == pos % 4
    IN  IF n = 0 THEN IsNaN(v)
        ELSE /\ ~IsNaN(v)
             /\ IF r = 0 THEN v = KEsimo(E, rep, lo + 1)
                ELSE LET a == KEsimo(E, rep, lo + 1)
                         b == KEsimo(E, rep, lo + 2)
                     IN  RMul(Num(4), RSub(v, a)) = RMul(Num(r), RSub(b, a))

CuantilesPorRepeticion(redondeo) ==
    pc = "tabla_uni" =>
        \A j \in 1..Len(tabla_uni) :
            LET G == FilasAgloPeriodo(tabla_uni[j].AGLOMERADO, tabla_uni[j].PERIODO)
                rep == [i \in {k \in G : Elegible(k)} |->
                          IF redondeo THEN Redondear(df_ocup[i].PONDERA)
                          ELSE Truncar(df_ocup[i].PONDERA)]
            IN  /\ EsCuantil(tabla_uni[j].MEDIANA, G, rep, 2)
                /\ EsCuantil(tabla_uni[j].Q25, G, rep, 1)
                /\ EsCuantil(tabla_uni[j].Q75, G, rep, 3)

\* C6 as stated: MEDIANA, Q25 and Q75 of every group are the sample
\* quantiles of the multiset in which each eligible record appears
\* round(w_i) times.
C6_Redondeo == CuantilesPorRepeticion(TRUE)

\* C6 amended: each eligible record appears int(w_i) times (the weight is
\* truncated, not rounded); the three quantiles are missing when the
\* multiset is empty.
C6_Truncado == CuantilesPorRepeticion(FALSE)

\* a group whose weights are fractional and whose quantiles are interpolated
C6_Witness ==
    /\ pc = "tabla_uni"
    /\ \E j \in 1..Len(tabla_uni) :
          /\ ~IsNaN(tabla_uni[j].Q25)
          /\ tabla_uni[j].Q25 # tabla_uni[j].MEDIANA
          /\ \E i \in FilasAgloPeriodo(tabla_uni[j].AGLOMERADO, tabla_uni[j].PERIODO) :
                Elegible(i) /\ df_ocup[i].PONDERA[2] > 1

\* C7: in every group whose quantiles are defined, Q25 <= MEDIANA <= Q75.
C7_CuantilesMonotonos ==
    pc = "tabla_uni" =>
        \A j \in 1..Len(tabla_uni) :
            (~IsNaN(tabla_uni[j].Q25) /\ ~IsNaN(tabla_uni[j].MEDIANA)
             /\ ~IsNaN(tabla_uni[j].Q75)) =>
                /\ RLe(tabla_uni[j].Q25, tabla_uni[j].MEDIANA)
                /\ RLe(tabla_uni[j].MEDIANA, tabla_uni[j].Q75)

\* a group with three distinct quantiles, its larger income listed first
C7_Witness ==
    /\ pc = "tabla_uni"
    /\ \E j \in 1..Len(tabla_uni) :
          /\ ~IsNaN(tabla_uni[j].Q25)
          /\ RLt(tabla_uni[j].Q25, tabla_uni[j].MEDIANA)
          /\ RLt(tabla_uni[j].MEDIANA, tabla_uni[j].Q75)
    /\ Len(df_ocup) > 1
    /\ Elegible(1) /\ Elegible(2)
    /\ RLt(df_ocup[2].INGRESO_REAL, df_ocup[1].INGRESO_REAL)

----------------------------------------------------------------------------
(* Properties of the labor-force rates (checked under SpecTasas) *)

Adulto(i) == ~IsNaN(df_recortado[i].CH06) /\ df_recortado[i].CH06[1] >= 18 * df_recortado[i].CH06[2]

\* the 18+ rows of a (region, year, quarter) group of the input
Cohorte(a, y, q) ==
    {i \in 1..Len(df_recortado) :
        /\ df_recortado[i].AGLOMERADO = a
        /\ df_recortado[i].ANO4 = y
        /\ df_recortado[i].TRIMESTRE = q
        /\ Adulto(i)}

\* v = n / d, and v = 0 when d = 0
EsRazon(v, n, d) ==
    IF d = 0 THEN v = Num(0) ELSE ~IsNaN(v) /\ v[1] * d = n * v[2]

\* the three rates of tg are those of the rows G of the 18+ cohort
SonTasasDe(tg, G) ==
    LET empleados == Cardinality({i \in G : df_recortado[i].ESTADO = Num(1)})
        desempleados == Cardinality({i \in G : df_recortado[i].ESTADO = Num(2)})
        poblacion == Cardinality(G)
    IN  /\ EsRazon(tg.TA, empleados + desempleados, poblacion)
        /\ EsRazon(tg.TE, empleados, poblacion)
        /\ EsRazon(tg.TD, desempleados, empleados + desempleados)

\* C8: every (region, year, quarter) group of the 18+ cohort has one row with
\* TA = (employed + unemployed) / population, TE = employed / population,
\* TD = unemployed / (employed + unemployed), employed being ESTADO 1 and
\* unemployed ESTADO 2; a rate whose denominator is 0 is 0.  calcular_tasas
\* gives the same three rates for the table it is handed.
C8_Tasas ==
    /\ pc = "tasas" =>
          SonTasasDe(tasas[1], {i \in 1..Len(df_recortado) : Adulto(i)})
    /\ pc = "df_tasas" =>
          /\ \A j \in 1..Len(df_tasas) :
                SonTasasDe(df_tasas[j], Cohorte(df_tasas[j].AGLOMERADO,
                                                df_tasas[j].ANO4,
                                                df_tasas[j].TRIMESTRE))
          /\ \A i \in 1..Len(df_recortado) :
                Adulto(i) =>
                    Cardinality({j \in 1..Len(df_tasas) :
                        /\ df_tasas[j].AGLOMERADO = df_recortado[i].AGLOMERADO
                        /\ df_tasas[j].ANO4 = df_recortado[i].ANO4
                        /\ df_tasas[j].TRIMESTRE = df_recortado[i].TRIMESTRE}) = 1

\* a group of two adults, one unemployed and one inactive, and nobody
\* employed: TD is taken over the active ones, TE is 0
C8_Witness ==
    /\ pc = "df_tasas"
    /\ \E j \in 1..Len(df_tasas) :
          /\ df_tasas[j].TA = Frac(1, 2)
          /\ df_tasas[j].TE = Num(0)
          /\ df_tasas[j].TD = Num(1)

EnUnidad(v) == ~IsNaN(v) /\ RLe(Num(0), v) /\ RLe(v, Num(1))

\* C9: every rate of the rate summary, and of calcular_tasas on any table,
\* lies in [0, 1].
C9_TasasAcotadas ==
    /\ pc = "tasas" =>
          EnUnidad(tasas[1].TA) /\ EnUnidad(tasas[1].TE) /\ EnUnidad(tasas[1].TD)
    /\ pc = "df_tasas" =>
          \A j \in 1..Len(df_tasas) :
              EnUnidad(df_tasas[j].TA) /\ EnUnidad(df_tasas[j].TE)
              /\ EnUnidad(df_tasas[j].TD)

\* calcular_tasas on a table with an employed minor and an adult
C9_Witness ==
    /\ pc = "tasas"
    /\ \E i \in 1..Len(df_recortado) : ~Adulto(i) /\ df_recortado[i].ESTADO = Num(1)
    /\ \E i \in 1..Len(df_recortado) : Adulto(i)
    /\ tasas[1].TE # Num(1)

\* C10 as stated, for the rate summary: every (region, year, quarter) group
\* of the input has a row in df_tasas, with the three rates 0 when the group
\* has no 18+ row.
C10_GrupoVacioInformado ==
    pc = "df_tasas" =>
        \A i \in 1..Len(df_recortado) :
            \E j \in 1..Len(df_tasas) :
                /\ df_tasas[j].AGLOMERADO = df_recortado[i].AGLOMERADO
                /\ df_tasas[j].ANO4 = df_recortado[i].ANO4
                /\ df_tasas[j].TRIMESTRE = df_recortado[i].TRIMESTRE
                /\ Cohorte(df_recortado[i].AGLOMERADO, df_recortado[i].ANO4,
                           df_recortado[i].TRIMESTRE) = {}
                      => (df_tasas[j].TA = Num(0) /\ df_tasas[j].TE = Num(0)
                          /\ df_tasas[j].TD = Num(0))

----------------------------------------------------------------------------
(* Properties of the branch classifier (checked under SpecRama) *)

\* the number an activity code stands for, NaN when it stands for none
ValorCodigo(c) ==
    IF IsNaN(c) \/ c = Texto THEN NaN
    ELSE IF IsStr(c) THEN Num(c[2]) ELSE c

EnRango(v, lo, hi) == ~IsNaN(v) /\ RLe(Num(lo), v) /\ RLt(v, Num(hi))

\* C11: a row is Industry exactly when its code c has 1500 <= c < 4000,
\* Tourism exactly when 5000 <= c < 6000 or 9100 <= c < 9500, and in no
\* branch for any other or missing code; 4000 and 6000 are in no branch,
\* 5999 is Tourism, and no code is in both branches
C11_Rangos ==
    pc = "rama" =>
        /\ Len(df_rama) = Len(df_emp)
        /\ \A i \in 1..Len(df_emp) :
             LET v == ValorCodigo(df_emp[i].PP04B_COD)
                 r == df_rama[i].RAMA_TUR
                 ind == EnRango(v, 1500, 4000)
                 tur == EnRango(v, 5000, 6000) \/ EnRango(v, 9100, 9500)
             IN  /\ r \in {"Industria", "Turismo", Ninguna}
                 /\ (r = "Industria") <=> ind
                 /\ (r = "Turismo") <=> tur
                 /\ ~(ind /\ tur)
                 /\ v \in {Num(4000), Num(6000)} => r = Ninguna
                 /\ v = Num(5999) => r = "Turismo"

C11_Witness ==
    /\ pc = "rama"
    /\ \E i, j \in 1..Len(df_emp) :
         /\ df_emp[i].PP04B_COD = Num(4000) /\ df_rama[i].RAMA_TUR = Ninguna
         /\ df_emp[j].PP04B_COD = Num(5999) /\ df_rama[j].RAMA_TUR = "Turismo"

----------------------------------------------------------------------------
(* Properties of the branch participation (checked under SpecParticipacion) *)

\* the employed rows of df_emp aged 18 or more of a (region, year)
CohorteEmp(a, y) ==
    {i \in 1..Len(df_emp) :
        /\ Admitido(df_emp[i].AGLOMERADO)
        /\ df_emp[i].AGLOMERADO = a /\ df_emp[i].ANO4 = y
        /\ df_emp[i].ESTADO = Num(1)
        /\ ~IsNaN(df_emp[i].CH06) /\ RLe(Num(18), df_emp[i].CH06)}

\* the branch the ranges put row i in
RamaDe(i) ==
    LET v == ValorCodigo(df_emp[i].PP04B_COD)
    IN  IF EnRango(v, 1500, 4000) THEN "Industria"
        ELSE IF EnRango(v, 5000, 6000) \/ EnRango(v, 9100, 9500) THEN "Turismo"
        ELSE Ninguna

PesosEmp == [i \in 1..Len(df_emp) |-> df_emp[i].PONDERA]

FilasPart(a, y, b) ==
    {j \in 1..Len(df_part) :
        df_part[j].AGLOMERADO = a /\ df_part[j].ANO4 = y /\ df_part[j].RAMA = b}

\* C12: every (region, year, branch) row has as denominator the sum of the
\* weights of all employed rows aged 18+ of the (region, year), unclassified
\* ones included, as numerator the sum of the weights of those in the
\* branch, and as share numerator / denominator; a branch with a row in the
\* cohort has exactly one output row
C12_Participacion ==
    pc = "part" =>
        /\ \A j \in 1..Len(df_part) :
             LET m == df_part[j]
                 G == CohorteEmp(m.AGLOMERADO, m.ANO4)
                 B == {i \in G : RamaDe(i) = m.RAMA}
             IN  /\ m.RAMA \in {"Industria", "Turismo"}
                 /\ B # {}
                 /\ m.OCUPADOS_TOTALES = SumaSobre(G, PesosEmp)
                 /\ m.OCUPADOS_RAMA = SumaSobre(B, PesosEmp)
                 /\ m.OCUPADOS_TOTALES[1] # 0 =>
                       /\ ~IsNaN(m.PART_RAMA)
                       /\ RMul(m.PART_RAMA, m.OCUPADOS_TOTALES) = m.OCUPADOS_RAMA
        /\ \A k \in AgloAnos : \A b \in {"Industria", "Turismo"} :
             (\E i \in CohorteEmp(k[1], k[2]) : RamaDe(i) = b)
                 => Cardinality(FilasPart(k[1], k[2], b)) = 1

C12_Witness ==
    /\ pc = "part"
    /\ \E j \in 1..Len(df_part) :
         /\ df_part[j].OCUPADOS_RAMA = Num(2)
         /\ df_part[j].OCUPADOS_TOTALES = Num(4)
         /\ df_part[j].PART_RAMA = Frac(1, 2)
         /\ \E i \in CohorteEmp(df_part[j].AGLOMERADO, df_part[j].ANO4) :
              RamaDe(i) = Ninguna

FilasAgloAno(k) ==
    {j \in 1..Len(df_part) : df_part[j].AGLOMERADO = k[1] /\ df_part[j].ANO4 = k[2]}

EsFinito(v) == ~IsNaN(v) /\ v[2] # 0

\* share_Industry + share_Tourism of a (region, year); a branch without a
\* row counts 0
SumaPart(k) ==
    SumaSobre(FilasAgloAno(k), [j \in 1..Len(df_part) |-> df_part[j].PART_RAMA])

\* C13: for every (region, year) in the output, share_Industry +
\* share_Tourism <= 1, and < 1 when the (region, year) has an unclassified
\* employed row aged 18+
C13_Cierre ==
    pc = "part" =>
        \A k \in AgloAnos :
            (FilasAgloAno(k) # {}
             /\ \A j \in FilasAgloAno(k) : EsFinito(df_part[j].PART_RAMA))
            => /\ RLe(SumaPart(k), Num(1))
               /\ (\E i \in CohorteEmp(k[1], k[2]) : RamaDe(i) = Ninguna)
                     => RLt(SumaPart(k), Num(1))

\* table t without its row i
SinFila(t, i) == SubSeq(t, 1, i - 1) \o SubSeq(t, i + 1, Len(t))

\* two participation tables agree on every (region, year, branch) both report
MismaParticipacion(p, q) ==
    \A j \in 1..Len(p) : \A l \in 1..Len(q) :
        (p[j].AGLOMERADO = q[l].AGLOMERADO /\ p[j].ANO4 = q[l].ANO4
         /\ p[j].RAMA = q[l].RAMA)
        => /\ p[j].OCUPADOS_RAMA = q[l].OCUPADOS_RAMA
           /\ p[j].OCUPADOS_TOTALES = q[l].OCUPADOS_TOTALES
           /\ p[j].PART_RAMA = q[l].PART_RAMA

\* C14: a row whose weight is zero or negative contributes to no weighted
\* statistic: the branch-participation numerators, denominators and shares
\* of the table are those of the table without that row
C14_PesoNoPositivoNoCuenta ==
    pc = "part" =>
        \A i \in 1..Len(df_emp) :
            df_emp[i].PONDERA[1] <= 0
            => MismaParticipacion(
                   df_part, ParticipacionEmpleoPorRama(SinFila(df_emp, i), aglos, 18))

----------------------------------------------------------------------------
(* Properties of the boxplot cleaning (checked under SpecBoxplot) *)

\* a row of df_box that passes every validity filter: positive income,
\* positive weight and, when the table has an age column, age >= 18
ValidoBox(r) ==
    /\ Positivo(r.INGRESO_REAL)
    /\ Positivo(r.PONDERA)
    /\ "CH06" \in DOMAIN r => ~IsNaN(r.CH06) /\ RLe(Num(18), r.CH06)

\* C15: the 99.5th-percentile threshold of limpiar_boxplot is computed over
\* the rows that passed every validity filter (positive income, positive
\* weight, age >= 18), so a row a validity filter removes has no influence
\* on it
C15_UmbralSobreValidos ==
    pc = "boxplot" =>
        q995 = Quantile(Column(SelectSeq(df_box, ValidoBox), "INGRESO_REAL"),
                        <<199, 200>>)

\* C20: the positive-weight filter (PONDERA > 0) applied twice yields the
\* same table as applied once, on the table limpiar_boxplot is given and on
\* the table it returns
C20_FiltroIdempotente ==
    /\ FiltrarPonderaPositiva(FiltrarPonderaPositiva(df_box))
           = FiltrarPonderaPositiva(df_box)
    /\ pc = "boxplot" => FiltrarPonderaPositiva(df_box_out) = df_box_out

C20_Witness ==
    /\ pc = "boxplot"
    /\ df_box_out # <<>>
    /\ Len(FiltrarPonderaPositiva(df_box)) < Len(df_box)

----------------------------------------------------------------------------
(* Properties of calcular_ingresos (checked under SpecCalcularIngresos) *)

TieneEdadAdulta(r) ==
    "CH06" \in DOMAIN r /\ ~IsNaN(r.CH06) /\ RLe(Num(18), r.CH06)

\* C16: every row the general and periodic income summaries of
\* calcular_ingresos are computed from has ESTADO = 1 and age >= 18, and
\* filtrar_adultos lets no row with a missing age through, whatever the
\* input table
C16_CohorteElegible ==
    pc = "ingresos" =>
        /\ \A i \in 1..Len(df_ocup) :
             df_ocup[i].ESTADO = Num(1) /\ TieneEdadAdulta(df_ocup[i])
        /\ \A i \in 1..Len(df_defl) : TieneEdadAdulta(df_defl[i])

----------------------------------------------------------------------------
(* Properties of the record normalizer (checked under SpecLimpieza) *)

\* a raw value equal to 9, 99 or -1, as a number or as a string
EsNoRespuesta(c) == ValorCodigo(c) \in {Num(9), Num(99), Num(-1)}

\* C17: for every configured categorical-like column of the raw table, a raw
\* value equal to 9, 99 or -1, given as a string, an int or a float, is
\* missing in the normalized output
C17_CentinelasAusentes ==
    pc = "periodo" =>
        \A i \in 1..Len(eph_cruda) :
            \A c \in DOMAIN eph_cruda[i] \cap COLS_CON_NA :
                EsNoRespuesta(eph_cruda[i][c]) => IsNaN(df_cruda[i][c])

\* C18: creating the period column never raises, whatever year and quarter
\* the rows have; the period key is "{year}-T{quarter}" when both are
\* present and missing otherwise
C18_PeriodoSinExcepcion ==
    /\ pc # "ValueError"
    /\ pc = "periodo" =>
         \A i \in 1..Len(df_cruda) :
            IF IsNaN(df_cruda[i].ANO4) \/ IsNaN(df_cruda[i].TRIMESTRE)
              THEN IsNaN(df_cruda[i].PERIODO)
              ELSE df_cruda[i].PERIODO = PeriodoStr(df_cruda[i])

\* C19: no step mutates its input: the table handed to a normalizer step has
\* the same rows, columns and values after the call as before
C19_EntradaIntacta ==
    [][pc' \in {"na", "numeric", "periodo"} => df_cruda' = df_cruda]_vars

----------------------------------------------------------------------------
(* Properties of the pipeline script (checked under SpecMain) *)

\* the price index file is readable and has no row for the base period
BaseAusenteEnArchivo ==
    /\ ipc_file.col \in {"IPC_INDEX", "IPC"}
    /\ ~\E i \in 1..Len(ipc_file.rows) :
          ipc_file.rows[i].ANO4 = ano_base
          /\ ipc_file.rows[i].TRIMESTRE = trimestre_base

\* the income, rate, participation, chart and map files on a disk
SalidasEn(files) == {f \in files : f[1] \in ArchivosDeSalida}

\* C21: when the base period is absent from the price index, the run never
\* gets past the income step: calcular_ingresos ends it with IndexError,
\* and no step of the run writes an income, rate, participation, chart or
\* map file
C21_FalloSinSalidaParcial ==
    /\ [](BaseAusenteEnArchivo =>
            pc \in {"main", "main_2", "main_3", "start", "ValueError", "IndexError"})
    /\ [][BaseAusenteEnArchivo =>
            /\ SalidasEn(fs') = SalidasEn(fs)
            /\ pc = "start" => pc' = "IndexError"]_vars

C21_Witness ==
    /\ BaseAusenteEnArchivo
    /\ pc = "IndexError"
    /\ df_eph # <<>>
    /\ <<DATA_LIMPIA_RECORTADA, 1>> \in fs


----------------------------------------------------------------------------
(* Versioned exports                                                        *)

VersionesDe(files, path) == {f \in files : f[1] = path}

\* d is the path itself when it is absent from files, otherwise the version
\* with the smallest number from 2 on that is absent from files
EsPrimeraLibre(files, d) ==
    /\ d \notin files
    /\ IF <<d[1], 1>> \notin files THEN d[2] = 1
       ELSE d[2] >= 2 /\ \A n \in 2..(d[2] - 1) : <<d[1], n>> \in files

\* C22: on any finite set of existing files, versionar_archivo returns (after
\* at most one trial per existing version of the path, plus one) the path
\* itself when it does not exist and otherwise base_vN.ext for the smallest
\* N >= 2 that does not exist; the returned path names no existing file, so
\* every export of a sequence of exports keeps all the files written before
\* it and writes only to names that did not exist.
C22_VersionadoSinSobrescritura ==
    [][/\ fs \subseteq fs'
       /\ fs' = fs \cup destinos'
       /\ destinos' \cap fs = {}
       /\ {d[1] : d \in destinos'} \in {TablaParticipacion, ArchivosTasas}
       /\ \A d \in destinos' :
             /\ EsPrimeraLibre(fs, d)
             /\ d[2] <= Cardinality(VersionesDe(fs, d[1])) + 1]_vars

\* an export that found the path and its version 2 on disk and wrote version 3,
\* next to a first export of the other table
C22_Witness ==
    /\ <<"participacion_empleo_ramas.csv", 3>> \in destinos
    /\ <<"participacion_empleo_ramas.xlsx", 2>> \in destinos
    /\ <<"tasas_trimestrales.csv", 1>> \in fs
    /\ <<"tasas_trimestrales.xlsx", 2>> \in fs
    /\ <<"tasas_trimestrales.xlsx", 1>> \notin fs


----------------------------------------------------------------------------
(* Rates and the expansion factor                                           *)

\* the table t with the weight column replaced by ws
ConPondera(t, ws) == [i \in 1..Len(t) |-> [t[i] EXCEPT !.PONDERA = ws[i]]]

OtrosPesos == [1..Len(df_recortado) -> PesosTasas]

\* C23: the activity, employment and unemployment rates do not depend on the
\* weights: every table that differs from the input only in the weight column
\* (zero, negative and missing weights included) gives the same rates, for
\* the whole table and for every (region, year, quarter) group.
C23_TasasSinPesos ==
    /\ pc = "df_tasas" =>
          \A ws \in OtrosPesos :
             TasasTrimestrales(ConPondera(df_recortado, ws)) = df_tasas
    /\ pc = "tasas" =>
          \A ws \in OtrosPesos :
             <<CalcularTasas(ConPondera(df_recortado, ws))>> = tasas

\* one employed and one unemployed adult of the same group, with a negative
\* and a missing weight: the group has TA = 1 and TE = TD = 1/2
C23_Witness ==
    /\ pc = "df_tasas"
    /\ Len(df_recortado) = 2
    /\ df_recortado[1].PONDERA = Num(-1) /\ df_recortado[2].PONDERA = NaN
    /\ df_recortado[1].ESTADO = Num(1) /\ df_recortado[2].ESTADO = Num(2)
    /\ Len(df_tasas) = 1
    /\ df_tasas[1].TA = Num(1) /\ df_tasas[1].TE = Frac(1, 2)
    /\ df_tasas[1].TD = Frac(1, 2)


----------------------------------------------------------------------------
(* Mean and quantiles of the univariate summary                             *)

\* C24: in the univariate summary the mean and the quantiles have the same
\* eligible population: in every (region, period) group whose MEDIA is
\* defined, MEDIANA, Q25 and Q75 are defined too, also when every positive
\* weight of the group is a fraction below 1.
C24_CuantilesDondeHayMedia ==
    pc = "tabla_uni" =>
        \A j \in 1..Len(tabla_uni) :
            ~IsNaN(tabla_uni[j].MEDIA) =>
                /\ ~IsNaN(tabla_uni[j].MEDIANA)
                /\ ~IsNaN(tabla_uni[j].Q25)
                /\ ~IsNaN(tabla_uni[j].Q75)

=============================================================================
